---- MODULE Spec2Model ----
(***************************************************************************)
(* Model of abletonosc/song.py (SongHandler): the beat listener            *)
(* (start/stop/clear_api and the current_song_time_changed callback), the  *)
(* bulk query /live/song/get/track_data and the /live/song/get/clip_grid   *)
(* snapshot.                                                               *)
(*                                                                         *)
(* Song times are floats in the source; here a time is an integer number   *)
(* of tenths of a beat (11 is 1.1 beats), and int() is truncation toward   *)
(* zero of that fixed-point value, as Python's int() on a float.           *)
(***************************************************************************)
EXTENDS Integers, Sequences, FiniteSets, TLC

VARIABLES
    song_time,        \* host: self.song.current_song_time (tenths of a beat)
    beat_listeners,   \* host: how many times current_song_time_changed is registered
    last_song_time,   \* self.last_song_time (tenths of a beat)
    outbox,           \* messages handed to osc_server.send, in order
    notified,         \* calls of current_song_time_changed so far: [time, emitted]
    prop_listeners,   \* generic property subscriptions kept by the base handler
    op,               \* the handler or host event that ran last
    raised,           \* whether that handler let an exception escape
    logged,           \* the log lines that handler wrote
    tracks,           \* host: self.song.tracks
    num_scenes,       \* host: len(self.song.scenes)
    request,          \* parameters of the last bulk request
    response          \* what that request returned

vars == <<song_time, beat_listeners, last_song_time, outbox, notified,
          prop_listeners, op, raised, logged, tracks, num_scenes, request, response>>

----------------------------------------------------------------------------
(* Bounds *)

\* the callback is followed for this many notifications
MaxNotified == 5

\* song times the host reports: 0.2, 0.4, 0.9, 1.1 beats
Times == {2, 4, 9, 11}

\* song properties with a generic start_listen/stop_listen pair
ListenProps == {"tempo"}

None == "None"
NoRequest == [kind |-> "none"]
NoResponse == [status |-> "none"]

----------------------------------------------------------------------------
(* Beat listener *)

\* self.last_song_time = -1.0
InitialLastSongTime == 0 - 10

\* Python int() of a float: truncation toward zero
int(t) == IF t >= 0 THEN t \div 10 ELSE 0 - ((0 - t) \div 10)

BeatMessage(t) == [address |-> "/live/song/get/beat", args |-> <<int(t)>>]

\* the condition of the if in current_song_time_changed
BeatConditionNoRewind(cur, last) == int(cur) > int(last)
BeatCondition(cur, last) == (cur < last) \/ (int(cur) > int(last))

\* one call of current_song_time_changed: the messages it sends
BeatSends(cur, last) == IF BeatCondition(cur, last) THEN <<BeatMessage(cur)>> ELSE <<>>

\* the value it leaves in self.last_song_time
BeatLastStale(cur, last) == IF BeatCondition(cur, last) THEN cur ELSE last
BeatLast(cur, last) == cur

\* the host calls every registered copy of the callback, one after the other:
\* st = [last, out, calls]
RECURSIVE RunCallbacks(_, _, _)
RunCallbacks(n, cur, st) ==
    IF n = 0 THEN st
    ELSE RunCallbacks(n - 1, cur,
            [last  |-> BeatLast(cur, st.last),
             out   |-> st.out \o BeatSends(cur, st.last),
             calls |-> Append(st.calls,
                              [time |-> cur, emitted |-> Len(BeatSends(cur, st.last))])])

\* the host changes current_song_time and notifies its listeners
current_song_time_changed(t) ==
    /\ Len(notified) + beat_listeners <= MaxNotified
    /\ song_time' = t
    /\ LET st == RunCallbacks(beat_listeners, t,
                              [last |-> last_song_time, out |-> <<>>, calls |-> <<>>])
       IN /\ last_song_time' = st.last
          /\ outbox' = outbox \o st.out
          /\ notified' = notified \o st.calls
    /\ op' = "time"
    /\ raised' = FALSE
    /\ logged' = <<>>
    /\ UNCHANGED <<beat_listeners, prop_listeners, tracks, num_scenes, request, response>>

\* host: remove_current_song_time_listener raises when the callback is not connected
RemoveListener(n) ==
    IF n > 0 THEN [raises |-> FALSE, n |-> n - 1] ELSE [raises |-> TRUE, n |-> n]

\* host: add_current_song_time_listener
AddListener(n) == n + 1

\* stop_beat_listener: [n, raised, logged]; the bare except swallows the failure
StopBeatNoTry(n) ==
    LET r == RemoveListener(n)
    IN [n |-> r.n, raised |-> r.raises,
        logged |-> IF r.raises THEN <<>> ELSE <<"Removing beat listener">>]
StopBeat(n) ==
    LET r == RemoveListener(n)
    IN [n |-> r.n, raised |-> FALSE,
        logged |-> IF r.raises THEN <<>> ELSE <<"Removing beat listener">>]

\* start_beat_listener: stop first, then add
StartBeatStacking(n) ==
    [n |-> AddListener(n), raised |-> FALSE, logged |-> <<"Adding beat listener">>]
StartBeat(n) ==
    LET s == StopBeat(n)
    IN [n |-> AddListener(s.n), raised |-> s.raised,
        logged |-> s.logged \o <<"Adding beat listener">>]

\* self.last_song_time after start_beat_listener: the handler does not touch it
StartBeatLastReset(last) == InitialLastSongTime
StartBeatLast(last) == last

stop_beat_listener ==
    /\ LET s == StopBeat(beat_listeners)
       IN /\ beat_listeners' = s.n
          /\ raised' = s.raised
          /\ logged' = s.logged
    /\ op' = "stop_beat"
    /\ UNCHANGED <<song_time, last_song_time, outbox, notified, prop_listeners,
                   tracks, num_scenes, request, response>>

start_beat_listener ==
    /\ LET s == StartBeat(beat_listeners)
       IN /\ beat_listeners' = s.n
          /\ raised' = s.raised
          /\ logged' = s.logged
    /\ last_song_time' = StartBeatLast(last_song_time)
    /\ op' = "start_beat"
    /\ UNCHANGED <<song_time, outbox, notified, prop_listeners,
                   tracks, num_scenes, request, response>>

\* AbletonOSCHandler._start_listen / _stop_listen for a song property
start_listen(p) ==
    /\ prop_listeners' = prop_listeners \cup {p}
    /\ op' = "start_listen"
    /\ raised' = FALSE
    /\ logged' = <<>>
    /\ UNCHANGED <<song_time, beat_listeners, last_song_time, outbox, notified,
                   tracks, num_scenes, request, response>>

stop_listen(p) ==
    /\ prop_listeners' = prop_listeners \ {p}
    /\ op' = "stop_listen"
    /\ raised' = FALSE
    /\ logged' = <<>>
    /\ UNCHANGED <<song_time, beat_listeners, last_song_time, outbox, notified,
                   tracks, num_scenes, request, response>>

\* AbletonOSCHandler.clear_api: sweep every generic subscription
SuperClearApi(ps) == {}

\* SongHandler.clear_api: super().clear_api(), then remove the beat callback in a try
ClearApiBeat(n) ==
    LET r == RemoveListener(n)
    IN [n |-> r.n, raised |-> FALSE]

clear_api ==
    /\ prop_listeners' = SuperClearApi(prop_listeners)
    /\ LET s == ClearApiBeat(beat_listeners)
       IN /\ beat_listeners' = s.n
          /\ raised' = s.raised
    /\ logged' = <<>>
    /\ op' = "clear_api"
    /\ UNCHANGED <<song_time, last_song_time, outbox, notified,
                   tracks, num_scenes, request, response>>

----------------------------------------------------------------------------
(* Specification of the beat listener *)

InitBeat ==
    /\ song_time = 0
    /\ beat_listeners = 0
    /\ last_song_time = InitialLastSongTime
    /\ outbox = <<>>
    /\ notified = <<>>
    /\ prop_listeners = {}
    /\ op = "init_api"
    /\ raised = FALSE
    /\ logged = <<>>

Init ==
    /\ InitBeat
    /\ tracks = <<>>
    /\ num_scenes = 0
    /\ request = NoRequest
    /\ response = NoResponse

Next ==
    \/ \E t \in Times : current_song_time_changed(t)
    \/ start_beat_listener
    \/ stop_beat_listener
    \/ clear_api
    \/ \E p \in ListenProps : start_listen(p)
    \/ \E p \in ListenProps : stop_listen(p)

Spec == Init /\ [][Next]_vars

----------------------------------------------------------------------------
(* The host's song: tracks, devices, clip slots and clips *)

\* the tracks a song has at most, the clip slots of every track, the clips in a
\* song at most, the tokens of a track_data request at most
MaxTracks == 2
MaxSlots == 2
MaxClips == 2
MaxTokens == 2

TrackNames == <<"Drums", "Bass", "Keys", "Vox">>
DeviceNames == <<"Operator", "Reverb">>

\* an optional value is <<>> (None) or <<v>>
Some(v) == <<v>>

\* values that travel in a response
StrValue(x) == [t |-> "str", s |-> x]
IntValue(x) == [t |-> "int", i |-> x]
BoolValue(x) == [t |-> "bool", b |-> x]
NoneValue == [t |-> "none"]
TrackRef(id) == [t |-> "ref", cls |-> "Track", id |-> id]
ClipRef(id) == [t |-> "ref", cls |-> "Clip", id |-> id]

\* track k of the host: an even track is a child of the group track before it
GroupOf(k) == IF k % 2 = 0 THEN Some(k - 1) ELSE <<>>
DevicesOf(k) == SubSeq(DeviceNames, 1, (k + 1) % 3)
ClipNameOf(k, slot) ==
    IF k = 1 /\ slot = 0 THEN "A" ELSE IF k = 2 /\ slot = 1 THEN "B" ELSE ""
ClipColorOf(k, slot) == IF k = 1 THEN 16744448 ELSE k * 256 + slot

ClipAt(k, slot) ==
    [id |-> <<k, slot>>, name |-> ClipNameOf(k, slot), color |-> ClipColorOf(k, slot)]

\* occ: the set of <<k, slot>> cells that hold a clip
TrackOf(k, occ) ==
    [id          |-> k,
     name        |-> TrackNames[k],
     group_track |-> GroupOf(k),
     devices     |-> DevicesOf(k),
     clip_slots  |-> [j \in 1..MaxSlots |->
                        [clip |-> IF <<k, j - 1>> \in occ
                                  THEN Some(ClipAt(k, j - 1)) ELSE <<>>]]]

\* the track lists the host can hold: a child track only along with its group
TrackIdLists ==
    {ids \in UNION {[1..n -> 1..MaxTracks] : n \in 0..MaxTracks} :
        /\ \A i \in 1..(Len(ids) - 1) : ids[i] < ids[i + 1]
        /\ \A i \in 1..Len(ids) :
              GroupOf(ids[i]) # <<>> => \E j \in 1..Len(ids) : ids[j] = GroupOf(ids[i])[1]}

Cells(ids) == {<<ids[i], sl>> : i \in 1..Len(ids), sl \in 0..(MaxSlots - 1)}

Songs ==
    UNION {{[i \in 1..Len(ids) |-> TrackOf(ids[i], occ)] :
               occ \in {o \in SUBSET Cells(ids) : Cardinality(o) <= MaxClips}} :
           ids \in TrackIdLists}

----------------------------------------------------------------------------
(* /live/song/get/track_data *)

\* a token is written as its words and dots: "track.name" is <<"track", ".", "name">>
Tok(obj, name) == <<obj, ".", name>>

Tokens ==
    {Tok("track", "name"), Tok("track", "num_devices"), Tok("track", "group_track"),
     Tok("clip", "name"), Tok("clip_slot", "clip"), Tok("device", "name"),
     Tok("widget", "x")}

\* str.split("."): the pieces between the dots
RECURSIVE split(_)
split(s) ==
    IF \A i \in 1..Len(s) : s[i] # "." THEN <<s>>
    ELSE LET i == CHOOSE i \in 1..Len(s) : s[i] = "." /\ \A j \in 1..(i - 1) : s[j] # "."
         IN <<SubSeq(s, 1, i - 1)>> \o split(SubSeq(s, i + 1, Len(s)))

Ok(v) == [err |-> "", value |-> v]
Raise(e) == [err |-> e, value |-> NoneValue]

\* getattr on the host's objects
TrackAttr(track, property_name) ==
    CASE property_name = <<"name">> -> Ok(StrValue(track.name))
      [] property_name = <<"group_track">> ->
            Ok(IF track.group_track = <<>> THEN NoneValue
               ELSE TrackRef(track.group_track[1]))
      [] OTHER -> Raise("AttributeError")

ClipAttr(clip, property_name) ==
    CASE property_name = <<"name">> -> Ok(StrValue(clip.name))
      [] property_name = <<"color">> -> Ok(IntValue(clip.color))
      [] OTHER -> Raise("AttributeError")

ClipSlotAttr(clip_slot, property_name) ==
    CASE property_name = <<"clip">> ->
            Ok(IF clip_slot.clip = <<>> THEN NoneValue ELSE ClipRef(clip_slot.clip[1].id))
      [] property_name = <<"has_clip">> -> Ok(BoolValue(clip_slot.clip # <<>>))
      [] OTHER -> Raise("AttributeError")

DeviceAttr(device, property_name) ==
    CASE property_name = <<"name">> -> Ok(StrValue(device))
      [] OTHER -> Raise("AttributeError")

\* list(self.song.tracks).index(value), counted from zero
TrackIndex(trs, ref) ==
    IF \E i \in 1..Len(trs) : trs[i].id = ref.id
    THEN Ok(IntValue((CHOOSE i \in 1..Len(trs) :
                    trs[i].id = ref.id /\ \A j \in 1..(i - 1) : trs[j].id # ref.id) - 1))
    ELSE Raise("ValueError")

\* the track branch: the value appended for track.<property_name>
TrackValue(trs, track, property_name) ==
    IF property_name = <<"num_devices">> THEN Ok(IntValue(Len(track.devices)))
    ELSE LET r == TrackAttr(track, property_name)
         IN IF r.err = "" /\ r.value.t = "ref" /\ r.value.cls = "Track"
            THEN TrackIndex(trs, r.value)
            ELSE r

\* the running state of the handler: st = [rv, log, err]
Append1(st, r) ==
    IF r.err # "" THEN [st EXCEPT !.err = r.err]
    ELSE [st EXCEPT !.rv = Append(st.rv, r.value)]

\* the clip branch, from clip slot j on: one value per slot, None for an empty one
RECURSIVE ClipLoopSkipEmpty(_, _, _, _)
ClipLoopSkipEmpty(clip_slots, j, property_name, st) ==
    IF j > Len(clip_slots) \/ st.err # "" THEN st
    ELSE ClipLoopSkipEmpty(clip_slots, j + 1, property_name,
            IF clip_slots[j].clip # <<>>
            THEN Append1(st, ClipAttr(clip_slots[j].clip[1], property_name))
            ELSE st)
RECURSIVE ClipLoop(_, _, _, _)
ClipLoop(clip_slots, j, property_name, st) ==
    IF j > Len(clip_slots) \/ st.err # "" THEN st
    ELSE ClipLoop(clip_slots, j + 1, property_name,
            IF clip_slots[j].clip # <<>>
            THEN Append1(st, ClipAttr(clip_slots[j].clip[1], property_name))
            ELSE Append1(st, Ok(NoneValue)))

\* the clip_slot branch
RECURSIVE ClipSlotLoop(_, _, _, _)
ClipSlotLoop(clip_slots, j, property_name, st) ==
    IF j > Len(clip_slots) \/ st.err # "" THEN st
    ELSE ClipSlotLoop(clip_slots, j + 1, property_name,
            Append1(st, ClipSlotAttr(clip_slots[j], property_name)))

\* the device branch
RECURSIVE DeviceLoop(_, _, _, _)
DeviceLoop(devices, j, property_name, st) ==
    IF j > Len(devices) \/ st.err # "" THEN st
    ELSE DeviceLoop(devices, j + 1, property_name,
            Append1(st, DeviceAttr(devices[j], property_name)))

\* the else branch: log the unknown object identifier and go on
UnknownObjectAppendsNone(obj, st) ==
    [st EXCEPT !.rv = Append(st.rv, NoneValue),
               !.log = Append(st.log, <<"Unknown object identifier in get/track_data", obj>>)]
UnknownObject(obj, st) ==
    [st EXCEPT !.log = Append(st.log, <<"Unknown object identifier in get/track_data", obj>>)]

\* the body of "for prop in properties" for one prop
PropStep(trs, track, prop, st) ==
    LET parts == split(prop)
    IN IF Len(parts) # 2 THEN [st EXCEPT !.err = "ValueError"]
       ELSE LET obj == parts[1]
                property_name == parts[2]
            IN CASE obj = <<"track">> -> Append1(st, TrackValue(trs, track, property_name))
                 [] obj = <<"clip">> -> ClipLoop(track.clip_slots, 1, property_name, st)
                 [] obj = <<"clip_slot">> ->
                        ClipSlotLoop(track.clip_slots, 1, property_name, st)
                 [] obj = <<"device">> -> DeviceLoop(track.devices, 1, property_name, st)
                 [] OTHER -> UnknownObject(obj, st)

RECURSIVE PropLoop(_, _, _, _, _)
PropLoop(trs, track, properties, j, st) ==
    IF j > Len(properties) \/ st.err # "" THEN st
    ELSE PropLoop(trs, track, properties, j + 1, PropStep(trs, track, properties[j], st))

\* "for track_index in range(track_index_min, track_index_max)"; indices from zero
RECURSIVE TrackLoop(_, _, _, _, _)
TrackLoop(trs, track_index, track_index_max, properties, st) ==
    IF track_index >= track_index_max \/ st.err # "" THEN st
    ELSE IF track_index >= Len(trs)
         THEN [st EXCEPT !.err = "IndexError"]
         ELSE TrackLoop(trs, track_index + 1, track_index_max, properties,
                        PropLoop(trs, trs[track_index + 1], properties, 1, st))

\* "if track_index_max == -1: track_index_max = len(self.song.tracks)"
ResolveMaxNoWildcard(track_index_max, n) == track_index_max
ResolveMax(track_index_max, n) == IF track_index_max = 0 - 1 THEN n ELSE track_index_max

\* song_get_track_data(params): [rv, log, err]
TrackData(trs, track_index_min, track_index_max, properties) ==
    TrackLoop(trs, track_index_min, ResolveMax(track_index_max, Len(trs)), properties,
              [rv |-> <<>>, log |-> <<"Getting track data">>, err |-> ""])

\* what the handler hands back: the tuple, or the exception that escaped
Reply(st) ==
    IF st.err = "" THEN [status |-> "ok", values |-> st.rv]
    ELSE [status |-> "raise", error |-> st.err]

\* the index ranges asked for; max = -1 asks for every track from min on
Ranges == {<<0, 0 - 1>>, <<0, 1>>, <<1, 0 - 1>>, <<0, 2>>, <<1, 2>>}
TokenLists == UNION {[1..n -> Tokens] : n \in 0..MaxTokens}

song_get_track_data(track_index_min, track_index_max, properties) ==
    /\ LET st == TrackData(tracks, track_index_min, track_index_max, properties)
       IN /\ response' = Reply(st)
          /\ raised' = (st.err # "")
          /\ logged' = st.log
    /\ request' = [kind |-> "track_data", min |-> track_index_min,
                   max |-> track_index_max, props |-> properties]
    /\ op' = "track_data"
    /\ UNCHANGED <<song_time, beat_listeners, last_song_time, outbox, notified,
                   prop_listeners, tracks, num_scenes>>

InitQuery ==
    /\ InitBeat
    /\ tracks \in Songs
    /\ num_scenes = MaxSlots
    /\ request = NoRequest
    /\ response = NoResponse

\* one request on each song
NextQuery ==
    /\ response = NoResponse
    /\ \E r \in Ranges, props \in TokenLists :
          song_get_track_data(r[1], r[2], props)

SpecQuery == InitQuery /\ [][NextQuery]_vars

----------------------------------------------------------------------------
(* track_data: properties *)

RECURSIVE Flatten(_)
Flatten(ss) == IF ss = <<>> THEN <<>> ELSE Head(ss) \o Flatten(Tail(ss))

IsTrackData == request.kind = "track_data"
Answered == IsTrackData /\ response.status = "ok"

\* the upper end of the range asked for, and the indices (from zero) it covers
AskedMax == IF request.max = 0 - 1 THEN Len(tracks) ELSE request.max
AskedCount == IF AskedMax > request.min THEN AskedMax - request.min ELSE 0

\* what one token contributes for one track
C5_Segment(track, tok) ==
    CASE tok[1] = "track" ->
            <<CASE tok[3] = "name" -> [t |-> "str", s |-> track.name]
                [] tok[3] = "num_devices" -> [t |-> "int", i |-> Len(track.devices)]
                [] tok[3] = "group_track" ->
                     IF track.group_track = <<>> THEN [t |-> "none"]
                     ELSE [t |-> "int",
                           i |-> (CHOOSE n \in 1..Len(tracks) :
                                     tracks[n].id = track.group_track[1]) - 1]>>
      [] tok[1] = "clip" ->
            [j \in 1..Len(track.clip_slots) |->
                IF track.clip_slots[j].clip = <<>> THEN [t |-> "none"]
                ELSE [t |-> "str", s |-> track.clip_slots[j].clip[1].name]]
      [] tok[1] = "clip_slot" ->
            [j \in 1..Len(track.clip_slots) |->
                IF track.clip_slots[j].clip = <<>> THEN [t |-> "none"]
                ELSE [t |-> "ref", cls |-> "Clip", id |-> track.clip_slots[j].clip[1].id]]
      [] tok[1] = "device" ->
            [j \in 1..Len(track.devices) |-> [t |-> "str", s |-> track.devices[j]]]
      [] OTHER -> <<>>

\* C5: the response is the concatenation, over the track indices min..max-1 in
\* ascending order (max = -1 standing for the track count), of one block per
\* track, each block the concatenation of the tokens' segments in request order.
C5_Concatenation ==
    Answered =>
        response.values =
            Flatten([n \in 1..AskedCount |->
                Flatten([j \in 1..Len(request.props) |->
                    C5_Segment(tracks[request.min + n], request.props[j])])])

\* two tracks, two different tokens, the range given by max = -1
C5_Witness ==
    /\ Answered
    /\ request.min = 0 /\ request.max = 0 - 1
    /\ Len(tracks) = 2
    /\ request.props = <<Tok("device", "name"), Tok("track", "group_track")>>
    /\ response.values = <<StrValue("Operator"), StrValue("Reverb"), NoneValue, IntValue(0)>>

RECURSIVE C6_Slots(_, _)
\* the number of clip slots of the tracks lo..hi-1 (indices from zero)
C6_Slots(lo, hi) ==
    IF lo >= hi THEN 0 ELSE Len(tracks[lo + 1].clip_slots) + C6_Slots(lo + 1, hi)

C6_OnlyClipTokens ==
    /\ request.props # <<>>
    /\ \A j \in 1..Len(request.props) : request.props[j] = Tok("clip", "name")

C6_ExampleSong ==
    /\ Len(tracks) = 2
    /\ \A n \in 1..2 : Len(tracks[n].clip_slots) = 2
    /\ tracks[1].clip_slots[1].clip # <<>> /\ tracks[1].clip_slots[2].clip = <<>>
    /\ tracks[2].clip_slots[1].clip = <<>> /\ tracks[2].clip_slots[2].clip # <<>>
    /\ tracks[1].clip_slots[1].clip[1].name = "A"
    /\ tracks[2].clip_slots[2].clip[1].name = "B"

\* C6: a clip.<prop> token gives one value per clip slot of the track, in slot
\* order: the clip's <prop> for a slot with a clip, null for an empty slot; the
\* slots [A, empty] and [empty, B] asked with `0 2 clip.name` give [A, null, null, B].
C6_OneValuePerSlot ==
    (Answered /\ C6_OnlyClipTokens) =>
        /\ Len(response.values) =
              Len(request.props) * C6_Slots(request.min, request.min + AskedCount)
        /\ \A n \in 1..AskedCount, k \in 1..Len(request.props) :
              \A j \in 1..Len(tracks[request.min + n].clip_slots) :
                 LET slot == tracks[request.min + n].clip_slots[j]
                     at == Len(request.props) * C6_Slots(request.min, request.min + n - 1)
                           + (k - 1) * Len(tracks[request.min + n].clip_slots) + j
                 IN response.values[at] =
                       IF slot.clip = <<>> THEN NoneValue ELSE StrValue(slot.clip[1].name)
        /\ (C6_ExampleSong /\ request.min = 0 /\ request.max = 2
               /\ Len(request.props) = 1) =>
              response.values = <<StrValue("A"), NoneValue, NoneValue, StrValue("B")>>

C6_Witness ==
    /\ Answered
    /\ C6_ExampleSong
    /\ request.min = 0 /\ request.max = 2
    /\ request.props = <<Tok("clip", "name")>>
    /\ response.values = <<StrValue("A"), NoneValue, NoneValue, StrValue("B")>>

C7_Known(tok) == tok[1] \in {"track", "clip", "clip_slot", "device"}
C7_WithoutUnknown(props) == SelectSeq(props, C7_Known)

\* C7: a token with an unknown entity keyword is skipped: the request returns
\* what the same request without that token returns.
C7_UnknownSkipped ==
    IsTrackData =>
        response = Reply(TrackData(tracks, request.min, request.max,
                                   C7_WithoutUnknown(request.props)))

\* an unknown token before a valid one: the valid one still gives its values
C7_Witness ==
    /\ Answered
    /\ request.props = <<Tok("widget", "x"), Tok("track", "name")>>
    /\ request.min = 0 /\ request.max = 0 - 1
    /\ response.values = <<StrValue("Drums"), StrValue("Bass")>>
    /\ Len(logged) = 3

\* C8: no element of a track_data response is an object reference.
C8_NoReference ==
    Answered => \A n \in 1..Len(response.values) : response.values[n].t # "ref"

----------------------------------------------------------------------------
(* /live/song/get/clip_grid *)

Digits == <<"0", "1", "2", "3", "4", "5", "6", "7", "8", "9">>
HexDigits == <<"0", "1", "2", "3", "4", "5", "6", "7", "8", "9",
               "a", "b", "c", "d", "e", "f">>

\* "%d": the decimal digits of n
RECURSIVE Decimal(_)
Decimal(n) ==
    IF n < 10 THEN <<Digits[n + 1]>> ELSE Decimal(n \div 10) \o <<Digits[(n % 10) + 1]>>

\* "%d,%d" % (track_idx, slot_idx)
GridKey(track_idx, slot_idx) == Decimal(track_idx) \o <<",">> \o Decimal(slot_idx)

\* "%02x" of one byte, and "#%02x%02x%02x" of the three bytes of a packed colour
Hex2(b) == <<HexDigits[(b \div 16) + 1], HexDigits[(b % 16) + 1]>>
HexColor(c) ==
    <<"#">> \o Hex2((c \div 65536) % 256) \o Hex2((c \div 256) % 256) \o Hex2(c % 256)

\* d[key] = value on a dict
Put(d, key, value) == [x \in (DOMAIN d) \cup {key} |-> IF x = key THEN value ELSE d[x]]
EmptyDict == [x \in {} |-> x]

\* the body of the inner loop for an occupied slot
GridPut(st, track_idx, slot_idx, clip) ==
    [clips       |-> Put(st.clips, GridKey(track_idx, slot_idx),
                         IF clip.name # "" THEN clip.name ELSE "(unnamed)"),
     clip_colors |-> Put(st.clip_colors, GridKey(track_idx, slot_idx),
                         HexColor(clip.color))]

\* "for slot_idx, clip_slot in enumerate(track.clip_slots)", from slot_idx on, with
\* the break at the scene count; st = [clips, clip_colors]
RECURSIVE GridSlotLoopNoBreak(_, _, _, _, _)
GridSlotLoopNoBreak(clip_slots, track_idx, slot_idx, scenes, st) ==
    IF slot_idx >= Len(clip_slots) THEN st
    ELSE GridSlotLoopNoBreak(clip_slots, track_idx, slot_idx + 1, scenes,
            IF clip_slots[slot_idx + 1].clip # <<>>
            THEN GridPut(st, track_idx, slot_idx, clip_slots[slot_idx + 1].clip[1])
            ELSE st)
RECURSIVE GridSlotLoop(_, _, _, _, _)
GridSlotLoop(clip_slots, track_idx, slot_idx, scenes, st) ==
    IF slot_idx >= Len(clip_slots) THEN st
    ELSE IF slot_idx >= scenes THEN st
    ELSE GridSlotLoop(clip_slots, track_idx, slot_idx + 1, scenes,
            IF clip_slots[slot_idx + 1].clip # <<>>
            THEN GridPut(st, track_idx, slot_idx, clip_slots[slot_idx + 1].clip[1])
            ELSE st)

\* "for track_idx, track in enumerate(tracks)"
RECURSIVE GridTrackLoop(_, _, _, _)
GridTrackLoop(trs, track_idx, scenes, st) ==
    IF track_idx >= Len(trs) THEN st
    ELSE GridTrackLoop(trs, track_idx + 1, scenes,
            GridSlotLoop(trs[track_idx + 1].clip_slots, track_idx, 0, scenes, st))

\* the data clip_grid serialises with json.dumps
ClipGrid(trs, scenes) ==
    GridTrackLoop(trs, 0, scenes, [clips |-> EmptyDict, clip_colors |-> EmptyDict])

clip_grid ==
    /\ response = NoResponse
    /\ response' = [status |-> "ok", values |-> <<ClipGrid(tracks, num_scenes)>>]
    /\ request' = [kind |-> "clip_grid"]
    /\ op' = "clip_grid"
    /\ raised' = FALSE
    /\ logged' = <<>>
    /\ UNCHANGED <<song_time, beat_listeners, last_song_time, outbox, notified,
                   prop_listeners, tracks, num_scenes>>

\* the scene count is read on its own, next to each track's clip slots
InitGrid ==
    /\ InitBeat
    /\ tracks \in Songs
    /\ num_scenes \in 0..(MaxSlots + 1)
    /\ request = NoRequest
    /\ response = NoResponse

NextGrid == clip_grid

SpecGrid == InitGrid /\ [][NextGrid]_vars

----------------------------------------------------------------------------
(* clip_grid: properties *)

C9_Key(n, sl) == <<Digits[n + 1], ",", Digits[sl + 1]>>

C9_Occupied(n, sl) == sl < num_scenes /\ tracks[n + 1].clip_slots[sl + 1].clip # <<>>

C9_AllKeys ==
    {C9_Key(n - 1, j - 1) : n \in 1..Len(tracks), j \in 1..MaxSlots}

\* C9: the key "<track_index>,<slot_index>" is in the clips mapping, and in the
\* clip_colors mapping, exactly when slot_index is below the scene count and
\* that slot of that track holds a clip.
C9_GridKeys ==
    request.kind = "clip_grid" =>
        LET data == response.values[1]
        IN /\ DOMAIN data.clips \subseteq C9_AllKeys
           /\ DOMAIN data.clip_colors = DOMAIN data.clips
           /\ \A n \in 0..(Len(tracks) - 1) :
                 \A sl \in 0..(Len(tracks[n + 1].clip_slots) - 1) :
                    C9_Key(n, sl) \in DOMAIN data.clips <=> C9_Occupied(n, sl)

\* a clip at a slot at or beyond the scene count has no key, one below it has
C9_Witness ==
    /\ request.kind = "clip_grid"
    /\ num_scenes = 1
    /\ Len(tracks) = 2
    /\ tracks[2].clip_slots[2].clip # <<>>
    /\ tracks[1].clip_slots[1].clip # <<>>
    /\ DOMAIN response.values[1].clips = {<<"0", ",", "0">>}
    /\ response.values[1].clip_colors[<<"0", ",", "0">>] =
          <<"#", "f", "f", "8", "0", "0", "0">>

----------------------------------------------------------------------------
(* Beat listener: properties *)

C1_Expected(cur, last) ==
    IF int(cur) # int(last) \/ cur < last
    THEN <<[address |-> "/live/song/get/beat", args |-> <<int(cur)>>]>>
    ELSE <<>>

\* C1: a call of current_song_time_changed sends exactly one /live/song/get/beat
\* message when the integer part of the new time differs from that of
\* last_song_time or the new time is smaller, sends nothing otherwise, and leaves
\* last_song_time equal to the new time in both cases.
C1_BeatEdge ==
    [][Len(notified') = Len(notified) + 1 =>
          /\ outbox' = outbox \o C1_Expected(song_time', last_song_time)
          /\ last_song_time' = song_time']_vars

\* a rewind inside one beat (0.4 -> 0.2) has emitted and a step forward inside
\* one beat has not
C1_Witness ==
    \E i \in 1..(Len(notified) - 1), j \in 1..(Len(notified) - 1) :
        /\ notified[i].time = 4 /\ notified[i + 1].time = 2
        /\ notified[i + 1].emitted = 1
        /\ notified[j].time = 2 /\ notified[j + 1].time = 4
        /\ notified[j + 1].emitted = 0
        /\ last_song_time = notified[Len(notified)].time

\* C2: whatever start, stop and clear_api calls were made, the host holds at most
\* one registration of the beat callback, and a time notification adds at most
\* one beat message.
C2_AtMostOneRegistration ==
    [][beat_listeners' <= 1 /\ Len(outbox') <= Len(outbox) + 1]_vars

\* a start on a registered callback has removed it and added it again
C2_Witness ==
    /\ op = "start_beat"
    /\ logged = <<"Removing beat listener", "Adding beat listener">>
    /\ beat_listeners = 1

C4_StartResets ==
    op = "start_beat" => last_song_time = InitialLastSongTime

\* C4 amended: start_beat_listener leaves last_song_time as it was; only
\* current_song_time_changed writes it after init_api.
C4_StartKeepsLastTime ==
    [][(op' = "start_beat" => last_song_time' = last_song_time)
       /\ (last_song_time' # last_song_time => op' = "time")]_vars

\* a restart after a notification: last_song_time is the time seen before it
C4_Witness ==
    /\ op = "start_beat"
    /\ Len(notified) > 0
    /\ last_song_time = notified[Len(notified)].time
    /\ last_song_time # InitialLastSongTime

C10_Times == <<4, 9, 11, 11, 2>>

C10_Delivered ==
    /\ Len(notified) >= 5
    /\ \A i \in 1..5 : notified[i].time = C10_Times[i]

\* C10 as stated: the notifications 0.4, 0.9, 1.1, 1.1, 0.2 on a newly
\* initialised listener send two messages, on the third and the fifth.
C10_TwoMessages ==
    (C10_Delivered /\ Len(notified) = 5) =>
        /\ Len(outbox) = 2
        /\ [i \in 1..5 |-> notified[i].emitted] = <<0, 0, 1, 0, 1>>

\* C10 amended: they send three messages: on the first notification (0.4 against
\* the initial -1.0), on 0.9 -> 1.1 and on 1.1 -> 0.2; none on 0.4 -> 0.9 or on
\* the repeated 1.1.
C10_ThreeMessages ==
    C10_Delivered =>
        /\ [i \in 1..5 |-> notified[i].emitted] = <<1, 0, 1, 0, 1>>
        /\ SubSeq(outbox, 1, 3) = <<BeatMessage(4), BeatMessage(11), BeatMessage(2)>>
        /\ (Len(notified) = 5 => Len(outbox) = 3)

C10_Witness ==
    C10_Delivered /\ Len(notified) = 5 /\ Len(outbox) = 3

====
